---- MODULE Spec2Model ----
(***************************************************************************)
(* Model of src/graph.py: class Graph (construction from a triple list,    *)
(* the three traversals, the Ore check, the weight lookup and the          *)
(* nearest-neighbour construction of a Hamiltonian cycle).                 *)
(*                                                                         *)
(* A Node is identified by its value (Node.__eq__/__hash__), so a node is  *)
(* modelled by its value.  An Edge has identity equality, so a node's      *)
(* edge set keeps one entry per triple; the set is modelled as a sequence  *)
(* giving its iteration order, which Python leaves unspecified: a new      *)
(* edge may land at any position of that order.                            *)
(***************************************************************************)
EXTENDS Integers, Sequences, FiniteSets, TLC

\* ---- bounds ----
NumValues == 3
MaxWeight == 1
MaxTriples == 3
MaxTraverseTriples == 4

Values == 1..NumValues
\* weights are not validated; the documented domain is the non-negative numbers
Weights == 0..MaxWeight
\* Python's None: neither a node value nor a weight
None == -1

VARIABLES
    graph,      \* self.graph: value -> Node, a Node being [edges, parents]
    keys,       \* insertion order of the dict self.graph
    n_vertex,   \* self.n_vertex
    n_triples,  \* number of triples of data_input consumed so far
    op,         \* the method called on the constructed graph
    pc,         \* position inside that method
    how,        \* traverse: the mode
    idx,        \* traverse: position of `for node in self.graph.values()`
    passed,     \* the local set `passed` of traverse / find_hamiltonian_cycle
    emitted,    \* the sequence of printed node values
    queue,      \* _bfs: the FIFO queue
    stack,      \* _dfs_without_recur: the explicit stack
    call,       \* arguments of the current traverse_ / lookup call
    ore,        \* find_hamiltonian_cycle: value returned by _ore_theorem()
    start_node, \* find_hamiltonian_cycle: start_node
    cur_node,   \* find_hamiltonian_cycle: cur_node
    route,      \* find_hamiltonian_cycle: route (as a sequence of values)
    route_len,  \* find_hamiltonian_cycle: route_len
    result,     \* the returned value
    err         \* the raised exception

vars == <<graph, keys, n_vertex, n_triples, op, pc, how, idx, passed, emitted,
          queue, stack, call, ore, start_node, cur_node, route, route_len,
          result, err>>

gvars == <<graph, keys, n_vertex, n_triples>>
tvars == <<how, idx, emitted, queue, stack>>
hvars == <<ore, start_node, cur_node, route, route_len>>

\* ---- helpers on sequences ----
Range(s) == {s[i] : i \in 1..Len(s)}

InsertAt(s, i, e) == SubSeq(s, 1, i - 1) \o <<e>> \o SubSeq(s, i, Len(s))

\* ---- Node, Edge ----
Node == [edges |-> <<>>, parents |-> <<>>]

Edge(incident_node, weight) == [incident_node |-> incident_node, weight |-> weight]

\* parents[node] = edge on a dict modelled as a function
DictSet(d, k, v) == [x \in (DOMAIN d) \cup {k} |-> IF x = k THEN v ELSE d[x]]

\* ---- construction ----
add_or_get_node(self, value) ==
    IF value \notin DOMAIN self.graph
    THEN [graph |-> DictSet(self.graph, value, Node),
          keys |-> Append(self.keys, value),
          n_vertex |-> self.n_vertex + 1]
    ELSE self

\* body of the loop of Graph.__init__ for one triple; pos is the place the
\* new edge takes in the iteration order of node.edges
AddTripleTo(self, from_, to_, weight, pos) ==
    LET s1 == add_or_get_node(self, from_)
        s2 == add_or_get_node(s1, to_)
        edge == Edge(to_, weight)
        g1 == [s2.graph EXCEPT ![from_].edges = InsertAt(@, pos, edge)]
        g2 == [g1 EXCEPT ![to_].parents = DictSet(@, from_, edge)]
    IN [s2 EXCEPT !.graph = g2]

Self == [graph |-> graph, keys |-> keys, n_vertex |-> n_vertex]

AddTriple(from_, to_, weight) ==
    /\ pc = "construct"
    /\ \E pos \in 1..(IF from_ \in DOMAIN graph THEN Len(graph[from_].edges) + 1 ELSE 1) :
         LET s == AddTripleTo(Self, from_, to_, weight, pos)
         IN /\ graph' = s.graph
            /\ keys' = s.keys
            /\ n_vertex' = s.n_vertex
    /\ n_triples' = n_triples + 1
    /\ UNCHANGED <<op, pc, passed, call, result, err>>
    /\ UNCHANGED tvars
    /\ UNCHANGED hvars

\* Node values are opaque keys, used through == and hash only: the triples
\* name them in the order of their first appearance.
Known(self) == {v \in Values : v <= self.n_vertex + 1}

Triples(weights) ==
    {t \in Values \X Values \X weights :
        /\ t[1] \in Known(Self)
        /\ t[2] \in Known(add_or_get_node(Self, t[1]))}

Construct ==
    /\ n_triples < MaxTriples
    /\ \E t \in Triples(Weights) : AddTriple(t[1], t[2], t[3])

\* the traversals never read a weight: their graphs carry one weight only
ConstructUnweighted ==
    /\ n_triples < MaxTraverseTriples
    /\ \E t \in Triples({0}) : AddTriple(t[1], t[2], t[3])

\* _ore_theorem comparing the degree sum with <= in place of <
_ore_theorem_le(self) ==
    IF self.n_vertex < 3
    THEN FALSE
    ELSE ~ \E node1 \in DOMAIN self.graph, node2 \in DOMAIN self.graph :
             /\ node1 # node2
             /\ node2 \notin DOMAIN self.graph[node1].parents
             /\ node1 \notin DOMAIN self.graph[node2].parents
             /\ Len(self.graph[node1].edges) + Len(self.graph[node2].edges) <= self.n_vertex

\* ---- _ore_theorem ----
_ore_theorem(self) ==
    IF self.n_vertex < 3
    THEN FALSE
    ELSE ~ \E node1 \in DOMAIN self.graph, node2 \in DOMAIN self.graph :
             /\ node1 # node2
             /\ node2 \notin DOMAIN self.graph[node1].parents
             /\ node1 \notin DOMAIN self.graph[node2].parents
             /\ Len(self.graph[node1].edges) + Len(self.graph[node2].edges) < self.n_vertex

\* ---- _weight_between_nodes ----
Returned(value) == [raised |-> FALSE, value |-> value, err |-> "none"]
Raised(e) == [raised |-> TRUE, value |-> None, err |-> e]

NotAdjacentError == "ValueError: nodes are not adjacent"
EmptyMinError == "ValueError: min() arg is an empty sequence"
InvalidArgumentError == "ValueError: invalid argument value"

\* d[k] on a dict: KeyError when the key is missing
DictGet(d, k) == IF k \in DOMAIN d THEN Returned(d[k].weight) ELSE Raised("KeyError")

_weight_between_nodes(self, node, adjacent_node) ==
    IF adjacent_node \in DOMAIN self.graph[node].parents
    THEN DictGet(self.graph[node].parents, adjacent_node)
    ELSE IF node \in DOMAIN self.graph[adjacent_node].parents
         THEN DictGet(self.graph[node].parents, node)
         ELSE Raised(NotAdjacentError)

\* ---- _nearest_not_passed_node ----
\* builtin min over Edge.__lt__: the first edge no later edge is lighter than
RECURSIVE MinEdge(_, _)
MinEdge(best, rest) ==
    IF rest = <<>> THEN best
    ELSE MinEdge(IF Head(rest).weight < best.weight THEN Head(rest) ELSE best, Tail(rest))

NotPassed(passed_, edge) == edge.incident_node \notin passed_

edges_to_not_passed_nodes(self, node, passed_) ==
    SelectSeq(self.graph[node].edges, LAMBDA edge : NotPassed(passed_, edge))

\* _nearest_not_passed_node taking the minimum over all the edges of the node
_nearest_node_unfiltered(self, node, passed_) ==
    LET cands == self.graph[node].edges
    IN IF cands = <<>>
       THEN [raised |-> TRUE, value |-> None, err |-> "ValueError: min() arg is an empty sequence"]
       ELSE LET e == MinEdge(Head(cands), Tail(cands))
            IN [raised |-> FALSE, value |-> e.incident_node, err |-> "none", weight |-> e.weight]

_nearest_not_passed_node(self, node, passed_) ==
    LET cands == edges_to_not_passed_nodes(self, node, passed_)
    IN IF cands = <<>>
       THEN Raised(EmptyMinError)
       ELSE LET e == MinEdge(Head(cands), Tail(cands))
            IN [raised |-> FALSE, value |-> e.incident_node, err |-> "none", weight |-> e.weight]

\* ---- weight lookup as an operation on the constructed graph ----
WeightLookup(node, adjacent_node) ==
    /\ pc = "construct"
    /\ LET r == _weight_between_nodes(Self, node, adjacent_node)
       IN /\ result' = r.value
          /\ err' = r.err
          /\ pc' = IF r.raised THEN "raised" ELSE "returned"
    /\ op' = "_weight_between_nodes"
    /\ call' = <<node, adjacent_node>>
    /\ UNCHANGED <<passed>>
    /\ UNCHANGED gvars
    /\ UNCHANGED tvars
    /\ UNCHANGED hvars

Lookup == \E node \in DOMAIN graph, adjacent_node \in DOMAIN graph : WeightLookup(node, adjacent_node)

\* ---- find_hamiltonian_cycle ----
\* find_hamiltonian_cycle entering the construction without the early return
HamStart_no_return(start) ==
    /\ pc = "construct"
    /\ op' = "find_hamiltonian_cycle"
    /\ ore' = _ore_theorem(Self)
    /\ \E s \in (IF start = None THEN DOMAIN graph ELSE {start}) :
            /\ start_node' = s
            /\ route' = <<s>>
            /\ route_len' = 0
            /\ cur_node' = s
            /\ passed' = {s}
            /\ pc' = IF Cardinality(passed') # n_vertex THEN "while" ELSE "close"
            /\ UNCHANGED result
    /\ UNCHANGED <<call, err>>
    /\ UNCHANGED gvars
    /\ UNCHANGED tvars

\* lines 182-193: the Ore check, the choice of the start node (start = None:
\* not given, any node of the graph), the initialisation
HamStart(start) ==
    /\ pc = "construct"
    /\ op' = "find_hamiltonian_cycle"
    /\ ore' = _ore_theorem(Self)
    /\ IF ~ ore'
       THEN /\ pc' = "returned"
            /\ result' = 0
            /\ UNCHANGED <<start_node, cur_node, route, route_len, passed>>
       ELSE \E s \in (IF start = None THEN DOMAIN graph ELSE {start}) :
            /\ start_node' = s
            /\ route' = <<s>>
            /\ route_len' = 0
            /\ cur_node' = s
            /\ passed' = {s}
            /\ pc' = IF Cardinality(passed') # n_vertex THEN "while" ELSE "close"
            /\ UNCHANGED result
    /\ UNCHANGED <<call, err>>
    /\ UNCHANGED gvars
    /\ UNCHANGED tvars

FindHamiltonianCycle == \E start \in DOMAIN graph \cup {None} : HamStart(start)

\* lines 195-200: one iteration of the while loop, and its test
HamStep ==
    /\ pc = "while"
    /\ LET near == _nearest_not_passed_node(Self, cur_node, passed)
           w == _weight_between_nodes(Self, near.value, cur_node)
       IN IF near.raised
          THEN /\ pc' = "raised"
               /\ err' = near.err
               /\ UNCHANGED <<route, route_len, passed, cur_node>>
          ELSE IF w.raised
          THEN /\ pc' = "raised"
               /\ err' = w.err
               /\ UNCHANGED <<route, route_len, passed, cur_node>>
          ELSE /\ route_len' = route_len + w.value
               /\ route' = Append(route, near.value)
               /\ passed' = passed \cup {near.value}
               /\ cur_node' = near.value
               /\ pc' = IF Cardinality(passed') # n_vertex THEN "while" ELSE "close"
               /\ UNCHANGED err
    /\ UNCHANGED <<op, call, ore, start_node, result>>
    /\ UNCHANGED gvars
    /\ UNCHANGED tvars

\* lines 202-205: closing the cycle
HamClose ==
    /\ pc = "close"
    /\ LET w == _weight_between_nodes(Self, start_node, cur_node)
       IN IF w.raised
          THEN /\ pc' = "raised"
               /\ err' = w.err
               /\ route' = Append(route, start_node)
               /\ UNCHANGED <<route_len, result, emitted>>
          ELSE /\ pc' = "returned"
               /\ route' = Append(route, start_node)
               /\ route_len' = route_len + w.value
               /\ emitted' = route'
               /\ result' = route_len'
               /\ UNCHANGED err
    /\ UNCHANGED <<op, call, ore, start_node, cur_node, passed>>
    /\ UNCHANGED gvars
    /\ UNCHANGED <<how, idx, queue, stack>>

\* ---- traverse ----
Modes == {"bfs", "dfs", "rdfs", "other"}

\* lines 85-94: the dispatch on `how` and the empty set `passed`
Traverse(how_) ==
    /\ pc = "construct"
    /\ op' = "traverse"
    /\ how' = how_
    /\ IF how_ \in {"bfs", "dfs", "rdfs"}
       THEN /\ pc' = "for"
            /\ idx' = 1
            /\ passed' = {}
            /\ UNCHANGED err
       ELSE /\ pc' = "raised"
            /\ err' = InvalidArgumentError
            /\ UNCHANGED <<idx, passed>>
    /\ UNCHANGED <<emitted, queue, stack, call, result>>
    /\ UNCHANGED gvars
    /\ UNCHANGED hvars

TraverseCall == \E how_ \in Modes : Traverse(how_)

\* the loop of _bfs marking nothing at enqueue time
RECURSIVE BfsFor_no_mark(_, _)
BfsFor_no_mark(edges, st) ==
    IF edges = <<>> THEN st
    ELSE LET n == Head(edges).incident_node
         IN BfsFor_no_mark(Tail(edges),
                   IF n \notin st.passed
                   THEN [queue |-> Append(st.queue, n), passed |-> st.passed]
                   ELSE st)

\* lines 108-111: the loop of _bfs over node.edges
RECURSIVE BfsFor(_, _)
BfsFor(edges, st) ==
    IF edges = <<>> THEN st
    ELSE LET n == Head(edges).incident_node
         IN BfsFor(Tail(edges),
                   IF n \notin st.passed
                   THEN [queue |-> Append(st.queue, n), passed |-> st.passed \cup {n}]
                   ELSE st)

\* the scan of _dfs_without_recur without its break: the last such edge wins
LastNotPassed(edges, passed_) ==
    LET cands == SelectSeq(edges, LAMBDA edge : NotPassed(passed_, edge))
    IN IF cands = <<>> THEN None ELSE cands[Len(cands)].incident_node

\* lines 123-127: the first edge of node.edges to a node not in passed
FirstNotPassed(edges, passed_) ==
    LET cands == SelectSeq(edges, LAMBDA edge : NotPassed(passed_, edge))
    IN IF cands = <<>> THEN None ELSE Head(cands).incident_node

\* lines 131-138: _dfs_with_recur, returning the printed values and `passed`
RECURSIVE _dfs_with_recur(_, _, _), RDfsFor(_, _, _)
_dfs_with_recur(self, node, st) ==
    RDfsFor(self, self.graph[node].edges,
            [out |-> Append(st.out, node), passed |-> st.passed \cup {node}])

RDfsFor(self, edges, st) ==
    IF edges = <<>> THEN st
    ELSE LET n == Head(edges).incident_node
         IN RDfsFor(self, Tail(edges),
                    IF n \notin st.passed THEN _dfs_with_recur(self, n, st) ELSE st)

\* lines 95-97: one iteration of `for node in self.graph.values()`, up to
\* the entry of traverse_ (the whole call for the recursive traversal)
TraverseFor ==
    /\ pc = "for"
    /\ IF idx > Len(keys)
       THEN /\ pc' = "returned"
            /\ UNCHANGED <<idx, passed, emitted, queue, stack, call>>
       ELSE LET node == keys[idx]
            IN /\ idx' = idx + 1
               /\ IF node \in passed
                  THEN UNCHANGED <<pc, passed, emitted, queue, stack, call>>
                  ELSE /\ call' = <<node, passed, Len(emitted)>>
                       /\ CASE how = "bfs" ->
                                 /\ queue' = <<node>>
                                 /\ pc' = "bfs"
                                 /\ UNCHANGED <<passed, emitted, stack>>
                            [] how = "dfs" ->
                                 /\ stack' = <<node>>
                                 /\ pc' = "dfs"
                                 /\ UNCHANGED <<passed, emitted, queue>>
                            [] how = "rdfs" ->
                                 LET r == _dfs_with_recur(Self, node, [out |-> emitted, passed |-> passed])
                                 IN /\ emitted' = r.out
                                    /\ passed' = r.passed
                                    /\ UNCHANGED <<pc, queue, stack>>
    /\ UNCHANGED <<op, how, result, err>>
    /\ UNCHANGED gvars
    /\ UNCHANGED hvars

\* lines 104-111: one iteration of the while loop of _bfs, and its test
BfsStep ==
    /\ pc = "bfs"
    /\ LET node == Head(queue)
           st == BfsFor(graph[node].edges,
                        [queue |-> Tail(queue), passed |-> passed \cup {node}])
       IN /\ emitted' = Append(emitted, node)
          /\ queue' = st.queue
          /\ passed' = st.passed
          /\ pc' = IF st.queue = <<>> THEN "for" ELSE "bfs"
    /\ UNCHANGED <<op, how, idx, stack, call, result, err>>
    /\ UNCHANGED gvars
    /\ UNCHANGED hvars

\* lines 117-129: one iteration of the while loop of _dfs_without_recur, and its test
DfsStep ==
    /\ pc = "dfs"
    /\ LET node == stack[Len(stack)]
           passed1 == passed \cup {node}
           child == FirstNotPassed(graph[node].edges, passed1)
       IN /\ emitted' = IF node \notin passed THEN Append(emitted, node) ELSE emitted
          /\ passed' = passed1
          /\ stack' = IF child # None THEN Append(stack, child)
                                      ELSE SubSeq(stack, 1, Len(stack) - 1)
          /\ pc' = IF stack' = <<>> THEN "for" ELSE "dfs"
    /\ UNCHANGED <<op, how, idx, queue, call, result, err>>
    /\ UNCHANGED gvars
    /\ UNCHANGED hvars

Init ==
    /\ graph = <<>>
    /\ keys = <<>>
    /\ n_vertex = 0
    /\ n_triples = 0
    /\ op = "none"
    /\ pc = "construct"
    /\ how = "none"
    /\ idx = 0
    /\ passed = {}
    /\ emitted = <<>>
    /\ queue = <<>>
    /\ stack = <<>>
    /\ call = <<>>
    /\ ore = FALSE
    /\ start_node = None
    /\ cur_node = None
    /\ route = <<>>
    /\ route_len = 0
    /\ result = None
    /\ err = "none"

\* execution is single-threaded and synchronous: a method that was called
\* runs on until it returns or raises

\* construction, then traverse
NextTraverse ==
    \/ ConstructUnweighted
    \/ TraverseCall
    \/ TraverseFor
    \/ BfsStep
    \/ DfsStep

SpecTraverse == Init /\ [][NextTraverse]_vars

FairTraverse ==
    /\ SpecTraverse
    /\ WF_vars(TraverseFor)
    /\ WF_vars(BfsStep)
    /\ WF_vars(DfsStep)

\* construction, then find_hamiltonian_cycle
NextHam ==
    \/ Construct
    \/ FindHamiltonianCycle
    \/ HamStep
    \/ HamClose

SpecHam == Init /\ [][NextHam]_vars

FairHam ==
    /\ SpecHam
    /\ WF_vars(HamStep)
    /\ WF_vars(HamClose)

\* construction, then _weight_between_nodes
NextLookup ==
    \/ Construct
    \/ Lookup

SpecLookup == Init /\ [][NextLookup]_vars

\* ======================= properties =======================

Terminated == pc \in {"returned", "raised"}

\* the reading of the graph the claims use: edge sets only
EdgeWeights(u, v) ==
    {graph[u].edges[i].weight : i \in {j \in 1..Len(graph[u].edges) : graph[u].edges[j].incident_node = v}}

Adjacent(u, v) == EdgeWeights(u, v) # {} \/ EdgeWeights(v, u) # {}

degree(x) == Len(graph[x].edges)

vertexCount == Cardinality(DOMAIN graph)

NoDuplicates(s) == \A i \in 1..Len(s), j \in 1..Len(s) : s[i] = s[j] => i = j

\* C1: in each of the three modes traverse() terminates, never emits a value
\* twice, and on return the emitted sequence holds every node value of the
\* graph exactly once.
C1_TraverseEmitsEachNodeOnce ==
    /\ [](op = "traverse" => NoDuplicates(emitted) /\ Range(emitted) \subseteq DOMAIN graph)
    /\ []((op = "traverse" /\ pc = "returned") =>
            /\ Len(emitted) = vertexCount
            /\ Range(emitted) = DOMAIN graph)
    /\ ((op = "traverse" /\ how \in {"bfs", "dfs", "rdfs"}) ~> (pc = "returned"))

\* a traversal of a graph on all the values returned, and its order is not
\* the insertion order, in a graph with a self-loop or a repeated edge
C1_Witness ==
    /\ op = "traverse"
    /\ pc = "returned"
    /\ n_vertex = NumValues
    /\ emitted # keys
    /\ \E u \in DOMAIN graph : \E v \in DOMAIN graph :
         \/ (u = v /\ Adjacent(u, u))
         \/ Cardinality({j \in 1..Len(graph[u].edges) : graph[u].edges[j].incident_node = v}) > 1

\* C2: when the Ore check holds, find_hamiltonian_cycle returns, for every
\* start node, a route of vertexCount + 1 entries that visits every vertex
\* once, starts and ends at the start node, joins adjacent nodes only, and a
\* total weight that is the sum of weights of edges joining the consecutive
\* entries.
C2_RouteIsHamiltonianCycle ==
    (op = "find_hamiltonian_cycle" /\ ore /\ Terminated) =>
        /\ pc = "returned"
        /\ Len(route) = vertexCount + 1
        /\ Range(route) = DOMAIN graph
        /\ route[1] = start_node
        /\ route[Len(route)] = start_node
        /\ \A i \in 1..(Len(route) - 1) : Adjacent(route[i], route[i + 1])
        /\ \E ws \in [1..(Len(route) - 1) -> Weights] :
             /\ \A i \in 1..(Len(route) - 1) :
                  ws[i] \in EdgeWeights(route[i], route[i + 1]) \cup EdgeWeights(route[i + 1], route[i])
             /\ LET RECURSIVE Sum(_)
                    Sum(i) == IF i = 0 THEN 0 ELSE ws[i] + Sum(i - 1)
                IN result = Sum(Len(route) - 1)

C4_Symmetric ==
    \A a \in DOMAIN graph : \A i \in 1..Len(graph[a].edges) :
        LET e == graph[a].edges[i]
        IN e.weight \in EdgeWeights(e.incident_node, a)

\* C5: the weight lookup returns the weight of a triple connecting the two
\* nodes when there is one, in either direction, and raises the
\* not-adjacent error when there is none; nothing else happens.
C5_WeightLookup ==
    (op = "_weight_between_nodes") =>
        LET ws == EdgeWeights(call[1], call[2]) \cup EdgeWeights(call[2], call[1])
        IN IF ws # {}
           THEN pc = "returned" /\ result \in ws
           ELSE pc = "raised" /\ err = NotAdjacentError

\* the reference Ore predicate over edge sets
OreReference ==
    IF vertexCount < 3
    THEN FALSE
    ELSE \A u \in DOMAIN graph, v \in DOMAIN graph :
           (u # v /\ ~ Adjacent(u, v)) => degree(u) + degree(v) >= vertexCount

Complete == \A u \in DOMAIN graph, v \in DOMAIN graph : u # v => Adjacent(u, v)

\* C6: the value _ore_theorem returns is the reference Ore predicate (false
\* below three vertices, false exactly when a non-adjacent pair has a degree
\* sum below the vertex count), and it is true for a complete graph on at
\* least three vertices.
C6_OreMatchesReference ==
    (op = "find_hamiltonian_cycle") =>
        /\ ore \in BOOLEAN
        /\ ore = OreReference
        /\ (vertexCount >= 3 /\ Complete) => ore

\* the check returned true on a graph that is not complete
C6_Witness ==
    /\ op = "find_hamiltonian_cycle"
    /\ ore
    /\ ~ Complete

\* the orderings of all the vertices into a closed walk
HamiltonianCycles ==
    {c \in [1..vertexCount -> DOMAIN graph] :
        /\ \A i \in 1..vertexCount, j \in 1..vertexCount : c[i] = c[j] => i = j
        /\ \A i \in 1..vertexCount : Adjacent(c[i], c[(i % vertexCount) + 1])}

\* C7: when the Ore check returns true, the vertices can be ordered into a
\* closed walk through every vertex once, consecutive vertices adjacent.
C7_OreIsSound ==
    (op = "find_hamiltonian_cycle" /\ ore) => HamiltonianCycles # {}

NoUnvisitedNeighbour ==
    \A i \in 1..Len(graph[cur_node].edges) : graph[cur_node].edges[i].incident_node \in passed

\* C8: find_hamiltonian_cycle terminates; an iteration of its loop adds
\* exactly one vertex to the visited set, and at a node without an unvisited
\* neighbour it raises the error of the empty minimum, returning nothing.
C8_ConstructionTerminates ==
    /\ [][(pc = "while") =>
            IF NoUnvisitedNeighbour
            THEN pc' = "raised" /\ err' = EmptyMinError /\ result' = result /\ emitted' = emitted
            ELSE /\ passed \subseteq passed'
                 /\ Cardinality(passed') = Cardinality(passed) + 1
                 /\ pc' \in {"while", "close"}]_vars
    /\ [](pc = "while" => Cardinality(passed) < n_vertex)
    /\ ((op = "find_hamiltonian_cycle") ~> Terminated)

\* the construction met a dead end after at least one move
C8_Witness ==
    /\ op = "find_hamiltonian_cycle"
    /\ pc = "raised"
    /\ err = EmptyMinError
    /\ Cardinality(passed) > 1
    /\ Cardinality(passed) < n_vertex

\* C9: a call of the iterative depth-first traversal emits what the
\* recursive one emits from the same node with the same visited set: a
\* prefix of it while it runs, all of it (and the same visited set) once it
\* has returned.
C9_DfsOrdersAgree ==
    (op = "traverse" /\ how = "dfs" /\ call # <<>>) =>
        LET r == _dfs_with_recur(Self, call[1], [out |-> <<>>, passed |-> call[2]])
            seg == SubSeq(emitted, call[3] + 1, Len(emitted))
        IN /\ Len(seg) <= Len(r.out)
           /\ seg = SubSeq(r.out, 1, Len(seg))
           /\ (pc # "dfs") => (seg = r.out /\ passed = r.passed)

\* an iterative call returned after visiting three nodes, the second and
\* third both children of the first: it went back to the first and rescanned
C9_Witness ==
    /\ op = "traverse"
    /\ how = "dfs"
    /\ pc = "for"
    /\ call # <<>>
    /\ Len(emitted) - call[3] = 3
    /\ ~ Adjacent(emitted[call[3] + 2], emitted[call[3] + 3])

UnvisitedEdgeWeights ==
    {graph[cur_node].edges[i].weight :
        i \in {j \in 1..Len(graph[cur_node].edges) : graph[cur_node].edges[j].incident_node \notin passed}}

\* C10: a move of the construction goes to an unvisited neighbour over an
\* edge no edge to an unvisited neighbour is lighter than, and adds the
\* weight of that edge to the total.
C10_MoveAddsLowestWeight ==
    [][(pc = "while" /\ pc' \in {"while", "close"}) =>
         /\ cur_node' \notin passed
         /\ \E w \in EdgeWeights(cur_node, cur_node') :
              /\ \A x \in UnvisitedEdgeWeights : w <= x
              /\ route_len' = route_len + w]_vars

====
